---- MODULE Spec2Model ----
(***************************************************************************)
(* A model of the resource envelope (package wrap) and of the PATCH        *)
(* handler (package handlers) of sensu-go.                                 *)
(*                                                                         *)
(*   SpecPatch  two PatchResource requests running concurrently against    *)
(*              one store, each advancing through the handler's steps;     *)
(*              the store's Patch primitive is one atomic step.            *)
(*   SpecWrap   calls on package wrap: a resource is wrapped, the engine   *)
(*              stamps the envelope, the envelope is unwrapped.            *)
(*   SpecList   calls on a List of envelopes: envelopes are appended, the  *)
(*              List is unwrapped, or unwrapped into a caller's slice.     *)
(***************************************************************************)
EXTENDS Integers, Sequences, FiniteSets, TLC

VARIABLES
    store,      \* the storage engine: ID -> stored envelope
    req,        \* per request: the handler's position and local variables
    wrapper,    \* the envelope at hand (a *Wrapper, possibly nil)
    src,        \* the resource the envelope was wrapped from
    pristine,   \* the envelope's Value is still what wrap put there
    call,       \* the last call on package wrap: its arguments and results
    list,       \* a List: a sequence of envelopes
    lcall       \* the last call on the List: its arguments and results

patchVars == <<store, req>>
wrapVars == <<wrapper, src, pristine, call>>
listVars == <<list, lcall>>
vars == <<store, req, wrapper, src, pristine, call, list, lcall>>

-----------------------------------------------------------------------------
(* Bounds *)

\* ETag values a client may name in a precondition header: 0..MaxETag
MaxETag == 1

\* the longest list of options passed to a wrap call
MaxOpts == 2

\* the longest List of envelopes
MaxList == 2

\* the largest capacity of a slice the caller hands to List.UnwrapInto
MaxCap == 3

-----------------------------------------------------------------------------
(* patch.go: constants *)

mergePatchContentType == "application/merge-patch+json"
jsonPatchContentType == "application/json-patch+json"

\* actions.ErrCode values used by the handler; Untagged is an error value that
\* is not an actions.Error (no code), Nil is "no error"
Nil == "nil"
InvalidArgument == "InvalidArgument"
NotFound == "NotFound"
PreconditionFailed == "PreconditionFailed"
InternalErr == "InternalErr"
Untagged == "untagged"

\* error types of package store, as returned by the engine
ErrNotFound == "ErrNotFound"
ErrNotValid == "ErrNotValid"
ErrPreconditionFailed == "ErrPreconditionFailed"
ErrInternal == "ErrInternal"
ErrCanceled == "context.Canceled"

-----------------------------------------------------------------------------
(* Inputs of a request *)

Requests == {"r1", "r2"}

\* Request bodies. k: "unreadable" (ReadAll fails), "malformed" (not JSON),
\* "doc" (a JSON object); hasMeta: the object has a "metadata" block.
Doc(hasMeta, ns, name, spec) ==
    [k |-> "doc", hasMeta |-> hasMeta, ns |-> ns, name |-> name, spec |-> spec]
NoBody == [k |-> "none", hasMeta |-> FALSE, ns |-> "", name |-> "", spec |-> ""]
Bodies ==
    { [NoBody EXCEPT !.k = "unreadable"],
      [NoBody EXCEPT !.k = "malformed"],
      Doc(FALSE, "", "", ""),                 \* {}
      Doc(TRUE, "", "", "a"),                 \* {"metadata":{},"spec":"a"}
      Doc(TRUE, "default", "foo", "bad"),     \* the route's identity; merges to an invalid resource
      Doc(TRUE, "other", "", ""),             \* another namespace
      Doc(TRUE, "default", "bar", "") }       \* another name

ContentTypes ==
    { "", mergePatchContentType, jsonPatchContentType,
      "application/merge-patch+json; charset=utf-8", "text/plain" }

\* If-Match / If-None-Match header values: absent (""), "*", a list of quoted
\* ETags, or something that is neither
Header(k, tags) == [k |-> k, tags |-> tags]
IfMatchValues ==
    { Header("absent", <<>>), Header("star", <<>>), Header("bad", <<>>) }
    \cup { Header("list", <<e>>) : e \in 0..MaxETag }
IfNoneMatchValues ==
    { Header("absent", <<>>), Header("star", <<>>), Header("bad", <<>>) }

\* mux.Vars(r): the raw (still escaped) route variables
RouteNamespaces == { "default", "%zz" }
RouteIDs == { "foo", "foo%2Fbar", "%zz" }
RouteVars == [namespace : RouteNamespaces, id : RouteIDs]
NoVars == [namespace |-> "", id |-> ""]

\* url.PathUnescape on the route variables above
PathUnescape(s) ==
    CASE s = "%zz" -> [err |-> TRUE, v |-> ""]
      [] s = "foo%2Fbar" -> [err |-> FALSE, v |-> "foo/bar"]
      [] OTHER -> [err |-> FALSE, v |-> s]

-----------------------------------------------------------------------------
(* The storage engine *)

ID(namespace, name) == <<namespace, name>>
IDs == { ID("default", "foo"), ID("default", "foo/bar") }

Envelope(exists, etag, value) == [exists |-> exists, etag |-> etag, value |-> value]

\* a precondition attached to the context
NoCond == [k |-> "none", tags |-> {}]
AnyCond == [k |-> "any", tags |-> {}]
SetCond(tags) == [k |-> "set", tags |-> tags]

Range(s) == { s[i] : i \in DOMAIN s }

\* storev2.ReadIfMatch / ReadIfNoneMatch: "*" or a list of quoted ETags
ReadIfMatch(value) ==
    CASE value.k = "star" -> [err |-> FALSE, cond |-> AnyCond]
      [] value.k = "list" -> [err |-> FALSE, cond |-> SetCond(Range(value.tags))]
      [] OTHER -> [err |-> TRUE, cond |-> NoCond]

ReadIfNoneMatch(value) == ReadIfMatch(value)

\* If-Match: the stored ETag is in the set, or the set is the wildcard and
\* the resource exists
IfMatchHolds(cond, env) ==
    CASE cond.k = "none" -> TRUE
      [] cond.k = "any" -> env.exists
      [] OTHER -> env.exists /\ env.etag \in cond.tags

\* If-None-Match: the stored ETag is not in the set; the wildcard requires
\* the resource not to exist
IfNoneMatchHolds(cond, env) ==
    CASE cond.k = "none" -> TRUE
      [] cond.k = "any" -> ~env.exists
      [] OTHER -> ~(env.exists /\ env.etag \in cond.tags)

\* patch.Merge: the keys of the patch overwrite, the others stay
MergePatch(value, body) == IF body.spec = "" THEN value ELSE body.spec

ValidValue(value) == value # "bad"

\* Faults of the engine that do not depend on the request
Faults == { "none", ErrInternal, ErrCanceled }

\* gstore.Patch(ctx, id, patcher): one atomic read-check-merge-write.
\* Returns the error and the store after the call.
StorePatch(st, id, ifMatch, ifNoneMatch, body, fault) ==
    IF fault # "none" THEN [err |-> fault, store |-> st]
    ELSE IF ~st[id].exists THEN [err |-> ErrNotFound, store |-> st]
    ELSE IF ~IfMatchHolds(ifMatch, st[id]) \/ ~IfNoneMatchHolds(ifNoneMatch, st[id])
        THEN [err |-> ErrPreconditionFailed, store |-> st]
    ELSE IF ~ValidValue(MergePatch(st[id].value, body))
        THEN [err |-> ErrNotValid, store |-> st]
    ELSE [err |-> Nil,
          store |-> [st EXCEPT ![id] =
              Envelope(TRUE, st[id].etag + 1, MergePatch(st[id].value, body))]]

-----------------------------------------------------------------------------
(* handlers.PatchResource *)

\* validatePatch(data, vars): "" when the patch passes, else the error
validatePatch(data, params) ==
    IF data.k # "doc" THEN "json"
    ELSE IF ~data.hasMeta THEN ""
    ELSE IF PathUnescape(params.namespace).err THEN "escape"
    ELSE IF data.ns # "" /\ data.ns # PathUnescape(params.namespace).v THEN "namespace"
    ELSE IF PathUnescape(params.id).err THEN "escape"
    ELSE IF data.name # "" /\ data.name # PathUnescape(params.id).v THEN "name"
    ELSE ""

\* a classification that forgets the *store.ErrNotValid case
ClassifyWithoutNotValid(err) ==
    CASE err = Nil -> Nil
      [] err = ErrNotFound -> NotFound
      [] err = ErrPreconditionFailed -> PreconditionFailed
      [] OTHER -> InternalErr

\* patchV3Resource: the classification of the engine's error
ClassifyEngineError(err) ==
    CASE err = Nil -> Nil
      [] err = ErrNotFound -> NotFound
      [] err = ErrNotValid -> InvalidArgument
      [] err = ErrPreconditionFailed -> PreconditionFailed
      [] OTHER -> InternalErr

\* The handler's local variables. pc is the step the request is about to
\* take; failedAt is the step that returned the error.
NewRequest ==
    [pc |-> "ReceiveBody", body |-> NoBody, contentType |-> "", patcher |-> "none",
     ifMatch |-> NoCond, ifNoneMatch |-> NoCond, params |-> NoVars,
     name |-> "", namespace |-> "", err |-> Nil, failedAt |-> "",
     resource |-> "nil", calls |-> 0, engineErr |-> Nil]

Fail(q, step, code) == [q EXCEPT !.pc = "Done", !.err = code, !.failedAt = step]

\* ioutil.ReadAll(r.Body)
ReceiveBody(r) ==
    /\ req[r].pc = "ReceiveBody"
    /\ \E b \in Bodies :
         LET q == [req[r] EXCEPT !.body = b] IN
         req' = [req EXCEPT ![r] =
             IF b.k = "unreadable" THEN Fail(q, "ReceiveBody", InvalidArgument)
             ELSE [q EXCEPT !.pc = "SelectPatcher"]]
    /\ UNCHANGED <<store, wrapVars, listVars>>

\* a switch whose first case also lists jsonPatchContentType
SelectPatcherAcceptsJSONPatch(q, ct) ==
    IF ct \in {mergePatchContentType, jsonPatchContentType, ""}
        THEN [q EXCEPT !.pc = "IfMatch", !.contentType = ct, !.patcher = "merge"]
        ELSE [q EXCEPT !.pc = "Done", !.err = InvalidArgument,
                       !.failedAt = "SelectPatcher", !.contentType = ct]

\* the switch on the Content-Type header; contentType lives until the switch
\* ends, and in the error it is printed into
SelectPatcherStep(q, ct) ==
    IF ct \in {mergePatchContentType, ""}
        THEN [q EXCEPT !.pc = "IfMatch", !.contentType = ct, !.patcher = "merge"]
        ELSE Fail([q EXCEPT !.contentType = ct], "SelectPatcher", InvalidArgument)

SelectPatcher(r) ==
    /\ req[r].pc = "SelectPatcher"
    /\ \E ct \in ContentTypes : req' = [req EXCEPT ![r] = SelectPatcherStep(req[r], ct)]
    /\ UNCHANGED <<store, wrapVars, listVars>>

\* the If-Match header
IfMatchStep(q, value) ==
    LET p == [q EXCEPT !.contentType = ""] IN
    IF value.k = "absent" THEN [p EXCEPT !.pc = "IfNoneMatch"]
    ELSE IF ReadIfMatch(value).err THEN Fail(p, "IfMatch", InvalidArgument)
    ELSE [p EXCEPT !.pc = "IfNoneMatch", !.ifMatch = ReadIfMatch(value).cond]

IfMatch(r) ==
    /\ req[r].pc = "IfMatch"
    /\ \E value \in IfMatchValues : req' = [req EXCEPT ![r] = IfMatchStep(req[r], value)]
    /\ UNCHANGED <<store, wrapVars, listVars>>

\* the If-None-Match header
IfNoneMatchStep(q, value) ==
    IF value.k = "absent" THEN [q EXCEPT !.pc = "RouteVars"]
    ELSE IF ReadIfNoneMatch(value).err THEN Fail(q, "IfNoneMatch", InvalidArgument)
    ELSE [q EXCEPT !.pc = "RouteVars", !.ifNoneMatch = ReadIfNoneMatch(value).cond]

IfNoneMatch(r) ==
    /\ req[r].pc = "IfNoneMatch"
    /\ \E value \in IfNoneMatchValues : req' = [req EXCEPT ![r] = IfNoneMatchStep(req[r], value)]
    /\ UNCHANGED <<store, wrapVars, listVars>>

\* mux.Vars and the two url.PathUnescape calls
RouteVarsStep(q, params) ==
    IF PathUnescape(params.id).err \/ PathUnescape(params.namespace).err
        THEN Fail([q EXCEPT !.params = params], "RouteVars", Untagged)
        ELSE [q EXCEPT !.pc = "ValidateIdentity", !.params = params,
                       !.name = PathUnescape(params.id).v,
                       !.namespace = PathUnescape(params.namespace).v]

DecodeRouteVars(r) ==
    /\ req[r].pc = "RouteVars"
    /\ \E params \in RouteVars : req' = [req EXCEPT ![r] = RouteVarsStep(req[r], params)]
    /\ UNCHANGED <<store, wrapVars, listVars>>

\* a handler that goes on to the engine whatever validatePatch returns
ValidateIdentityStepIgnoringError(q) == [q EXCEPT !.pc = "ApplyAtomically"]

\* validatePatch(body, params)
ValidateIdentityStep(q) ==
    IF validatePatch(q.body, q.params) # ""
        THEN Fail(q, "ValidateIdentity", InvalidArgument)
        ELSE [q EXCEPT !.pc = "ApplyAtomically"]

ValidateIdentity(r) ==
    /\ req[r].pc = "ValidateIdentity"
    /\ req' = [req EXCEPT ![r] = ValidateIdentityStep(req[r])]
    /\ UNCHANGED <<store, wrapVars, listVars>>

\* h.patchV3Resource(ctx, name, namespace, patcher) and the return
ApplyResult(q, out) ==
    [q EXCEPT !.pc = "Done", !.calls = q.calls + 1, !.engineErr = out.err,
              !.err = ClassifyEngineError(out.err),
              !.failedAt = IF out.err = Nil THEN "" ELSE "ApplyAtomically",
              !.resource = "nil"]

\* a call that hands the engine r.Context() instead of ctx: the
\* preconditions never reach the engine
ApplyWithRequestContext(r) ==
    /\ req[r].pc = "ApplyAtomically"
    /\ \E fault \in Faults :
         LET q == req[r]
             out == StorePatch(store, ID(q.namespace, q.name), NoCond, NoCond,
                               q.body, fault)
         IN /\ store' = out.store
            /\ req' = [req EXCEPT ![r] = ApplyResult(q, out)]
            /\ UNCHANGED <<wrapVars, listVars>>

ApplyAtomically(r) ==
    /\ req[r].pc = "ApplyAtomically"
    /\ \E fault \in Faults :
         LET q == req[r]
             out == StorePatch(store, ID(q.namespace, q.name), q.ifMatch,
                               q.ifNoneMatch, q.body, fault)
         IN /\ store' = out.store
            /\ req' = [req EXCEPT ![r] = ApplyResult(q, out)]
            /\ UNCHANGED <<wrapVars, listVars>>

-----------------------------------------------------------------------------
(* package wrap: resources *)

Encoding_json == "json"
Encoding_protobuf == "protobuf"
Compression_none == "none"
Compression_snappy == "snappy"

\* the reserved metadata keys of package store
SensuCreatedAtKey == "sensu.io/created_at"
SensuUpdatedAtKey == "sensu.io/updated_at"
SensuDeletedAtKey == "sensu.io/deleted_at"
SensuETagKey == "sensu.io/etag"

\* A Go map[string]string: nil, or a finite function. kv of a nil map is empty.
NilMap == [nil |-> TRUE, kv |-> <<>>]
MakeMap == [nil |-> FALSE, kv |-> <<>>]
Map(kv) == [nil |-> FALSE, kv |-> kv]
Put(m, k, v) ==
    [nil |-> FALSE,
     kv |-> [x \in (DOMAIN m.kv) \cup {k} |-> IF x = k THEN v ELSE m.kv[x]]]
Has(m, k) == k \in DOMAIN m.kv

\* A *corev2.ObjectMeta: nil, or the struct
NilMeta == [nil |-> TRUE, namespace |-> "", name |-> "", labels |-> NilMap,
            annotations |-> NilMap]
ObjectMeta(namespace, name, labels, annotations) ==
    [nil |-> FALSE, namespace |-> namespace, name |-> name, labels |-> labels,
     annotations |-> annotations]
NewObjectMeta == ObjectMeta("", "", NilMap, NilMap)

\* The Go types of the resources. validatable: has Validate(); proto: is a
\* proto.Message; tmGetter: has GetTypeMeta(), returning (tmAPI, tmType);
\* pkg: the API version of the package defining the type; v3: implements
\* corev3.Resource.
GoType(pkg, validatable, proto, tmGetter, tmAPI, tmType, v3) ==
    [pkg |-> pkg, validatable |-> validatable, proto |-> proto,
     tmGetter |-> tmGetter, tmAPI |-> tmAPI, tmType |-> tmType, v3 |-> v3]
TypeNames == { "EntityConfig", "Custom", "Anon", "Plain", "CheckConfig" }
TypeInfo(t) ==
    CASE t = "EntityConfig" -> GoType("core/v3", TRUE, TRUE, FALSE, "", "", TRUE)
      [] t = "Custom" -> GoType("ext/v1", TRUE, FALSE, TRUE, "ext/v1", "Custom", TRUE)
      [] t = "Anon" -> GoType("ext/v1", TRUE, TRUE, TRUE, "ext/v1", "", TRUE)
      [] t = "Plain" -> GoType("ext/v1", FALSE, FALSE, FALSE, "", "", TRUE)
      [] OTHER -> GoType("core/v2", TRUE, TRUE, FALSE, "", "", FALSE)

\* apitools.Resolve(apiVersion, type): the registered types
TypeMeta(apiVersion, type) == [APIVersion |-> apiVersion, Type |-> type]
Registered ==
    { TypeMeta("core/v3", "EntityConfig"), TypeMeta("ext/v1", "Custom"),
      TypeMeta("ext/v1", "Plain"), TypeMeta("core/v2", "CheckConfig") }

\* A resource value. proxy: it is handed over inside a *corev3.V2ResourceProxy;
\* invalid: its Validate() returns an error.
Resource(typ, proxy, meta, invalid) ==
    [typ |-> typ, proxy |-> proxy, meta |-> meta, invalid |-> invalid]
NoResource == Resource("", FALSE, NilMeta, FALSE)
Zero(typ) == Resource(typ, FALSE, NilMeta, FALSE)

Metas ==
    { NilMeta,
      ObjectMeta("default", "foo", NilMap, NilMap),
      ObjectMeta("default", "foo", MakeMap, MakeMap),
      ObjectMeta("default", "foo", Map("app" :> "x"), Map("note" :> "n")),
      ObjectMeta("default", "foo",
                 Map(("app" :> "x") @@ (SensuDeletedAtKey :> "old")),
                 Map(SensuETagKey :> "old")) }

Resources ==
    { Resource(t, pr, m, inv) :
        t \in TypeNames, pr \in BOOLEAN, m \in Metas, inv \in BOOLEAN }
    \ { x \in [typ : TypeNames, proxy : {TRUE}, meta : Metas, invalid : BOOLEAN] :
          x.typ # "CheckConfig" }

-----------------------------------------------------------------------------
(* package wrap: codecs *)

\* What the bytes of an encoded resource hold. Nil and empty maps are both
\* left out (omitempty); a nil metadata pointer is left out.
Document(r) ==
    [hasMeta |-> ~r.meta.nil, namespace |-> r.meta.namespace, name |-> r.meta.name,
     labels |-> r.meta.labels.kv, annotations |-> r.meta.annotations.kv,
     invalid |-> r.invalid]
NoDocument == Document(NoResource)

\* Bytes: fmt is what they are ("json", "protobuf", "garbage"); z: they are
\* a snappy frame around that
Bytes(fmt, z, doc) == [fmt |-> fmt, z |-> z, doc |-> doc]
NoBytes == Bytes("", FALSE, NoDocument)
Garbage == Bytes("garbage", FALSE, NoDocument)

\* Encoding.Encode(v)
Encode(e, v) ==
    CASE e = Encoding_json -> [err |-> "", m |-> Bytes("json", FALSE, Document(v))]
      [] e = Encoding_protobuf ->
            IF TypeInfo(v.typ).proto
                THEN [err |-> "", m |-> Bytes("protobuf", FALSE, Document(v))]
                ELSE [err |-> "not a proto.Message", m |-> NoBytes]
      [] OTHER -> [err |-> "invalid encoding", m |-> NoBytes]

\* a map field decoded into a map that may hold entries already
MergeMap(old, kv) ==
    IF DOMAIN kv = {} THEN old
    ELSE Map([x \in (DOMAIN old.kv) \cup (DOMAIN kv) |->
                 IF x \in DOMAIN kv THEN kv[x] ELSE old.kv[x]])

\* json.Unmarshal(m, v): the fields the document holds are set, the others
\* keep what v held
UnmarshalJSON(doc, v) ==
    IF ~doc.hasMeta THEN [v EXCEPT !.invalid = doc.invalid]
    ELSE LET old == IF v.meta.nil THEN NewObjectMeta ELSE v.meta IN
         [v EXCEPT !.invalid = doc.invalid,
                   !.meta = ObjectMeta(
                       IF doc.namespace = "" THEN old.namespace ELSE doc.namespace,
                       IF doc.name = "" THEN old.name ELSE doc.name,
                       MergeMap(old.labels, doc.labels),
                       MergeMap(old.annotations, doc.annotations))]

\* proto.Unmarshal(m, msg): msg is reset, then filled
UnmarshalProto(doc, v) ==
    [v EXCEPT !.invalid = doc.invalid,
              !.meta = IF ~doc.hasMeta THEN NilMeta
                       ELSE ObjectMeta(doc.namespace, doc.name,
                                IF DOMAIN doc.labels = {} THEN NilMap ELSE Map(doc.labels),
                                IF DOMAIN doc.annotations = {} THEN NilMap
                                ELSE Map(doc.annotations))]

\* Encoding.Decode(m, v)
Decode(e, m, v) ==
    CASE e = Encoding_json ->
            IF m.fmt = "json" /\ ~m.z
                THEN [err |-> "", v |-> UnmarshalJSON(m.doc, v)]
                ELSE [err |-> "json: invalid", v |-> v]
      [] e = Encoding_protobuf ->
            IF ~TypeInfo(v.typ).proto THEN [err |-> "not a proto.Message", v |-> v]
            ELSE IF m.fmt = "protobuf" /\ ~m.z
                THEN [err |-> "", v |-> UnmarshalProto(m.doc, v)]
                ELSE [err |-> "proto: invalid", v |-> v]
      [] OTHER -> [err |-> "invalid encoding", v |-> v]

\* Compression.Compress(m)
Compress(c, m) ==
    CASE c = Compression_none -> m
      [] c = Compression_snappy -> [m EXCEPT !.z = TRUE]
      [] OTHER -> m

\* Compression.Decompress(m)
Decompress(c, m) ==
    CASE c = Compression_none -> [err |-> "", m |-> m]
      [] c = Compression_snappy ->
            IF m.z THEN [err |-> "", m |-> [m EXCEPT !.z = FALSE]]
            ELSE [err |-> "snappy: corrupt input", m |-> NoBytes]
      [] OTHER -> [err |-> "invalid compression", m |-> NoBytes]

\* time.Time, by its year: 1 is the zero Time
ZeroTime == [year |-> 1]
Now == [year |-> 2024]
FarFuture == [year |-> 10000]
Times == { ZeroTime, Now, FarFuture }
IsZero(t) == t = ZeroTime

\* string(text) of text, _ := t.MarshalText(): RFC 3339, and an error (text
\* nil) for a year outside [0,9999]
MarshalText(t) ==
    CASE t.year < 0 \/ t.year > 9999 -> ""
      [] t = ZeroTime -> "0001-01-01T00:00:00Z"
      [] OTHER -> "2024-01-01T00:00:00Z"
MarshalTextFails(t) == t.year < 0 \/ t.year > 9999

-----------------------------------------------------------------------------
(* package wrap: Wrapper *)

\* A *Wrapper: nil, or the struct
Wrapper(tm, enc, comp, value) ==
    [nil |-> FALSE, TypeMeta |-> tm, Encoding |-> enc, Compression |-> comp,
     Value |-> value, CreatedAt |-> ZeroTime, UpdatedAt |-> ZeroTime,
     DeletedAt |-> ZeroTime, ETag |-> ""]
NilWrapper == [Wrapper(TypeMeta("", ""), Encoding_json, Compression_none, NoBytes)
                  EXCEPT !.nil = TRUE]

\* The options
Options == { "EncodeProtobuf", "EncodeJSON", "EncodeDefault", "CompressNone",
             "CompressSnappy" }
OptionLists == UNION { [1..n -> Options] : n \in 0..MaxOpts }

\* opt(&w, r): the error and the wrapper after it
ApplyOption(opt, w, r) ==
    CASE opt = "EncodeProtobuf" ->
            IF ~TypeInfo(r.typ).proto
                THEN [err |-> "not a proto.Message", w |-> w]
                ELSE [err |-> "", w |-> [w EXCEPT !.Encoding = Encoding_protobuf]]
      [] opt = "EncodeJSON" -> [err |-> "", w |-> [w EXCEPT !.Encoding = Encoding_json]]
      [] opt = "EncodeDefault" ->
            [err |-> "",
             w |-> [w EXCEPT !.Encoding =
                       IF TypeInfo(r.typ).proto THEN Encoding_protobuf ELSE Encoding_json]]
      [] opt = "CompressNone" ->
            [err |-> "", w |-> [w EXCEPT !.Compression = Compression_none]]
      [] OTHER -> [err |-> "", w |-> [w EXCEPT !.Compression = Compression_snappy]]

\* the loop over opts
RECURSIVE ApplyOptions(_, _, _)
ApplyOptions(opts, w, r) ==
    IF opts = <<>> THEN [err |-> "", w |-> w]
    ELSE LET one == ApplyOption(Head(opts), w, r) IN
         IF one.err # "" THEN [err |-> one.err, w |-> w]
         ELSE ApplyOptions(Tail(opts), one.w, r)

\* the TypeMeta of r: its own, or the name and package of its type
TypeMetaOf(r) ==
    IF TypeInfo(r.typ).tmGetter
        THEN TypeMeta(TypeInfo(r.typ).tmAPI, TypeInfo(r.typ).tmType)
        ELSE TypeMeta(TypeInfo(r.typ).pkg, r.typ)

Failed(err) == [err |-> err, w |-> NilWrapper]

\* a wrap that applies the defaults after the caller's options
wrapWithDefaultsLast(r0, opts) ==
    LET r == [r0 EXCEPT !.proxy = FALSE]
        w0 == Wrapper(TypeMetaOf(r), Encoding_json, Compression_none, NoBytes)
        set == ApplyOptions(opts \o <<"EncodeDefault", "CompressSnappy">>, w0, r)
    IN IF set.err # "" THEN Failed(set.err)
       ELSE LET message == Encode(set.w.Encoding, r) IN
            IF message.err # "" THEN Failed(message.err)
            ELSE [err |-> "",
                  w |-> [set.w EXCEPT !.Value = Compress(set.w.Compression, message.m)]]

wrapWithoutValidation(r0, opts) ==
    LET r == [r0 EXCEPT !.proxy = FALSE]
        w0 == Wrapper(TypeMetaOf(r), Encoding_json, Compression_none, NoBytes)
        set == ApplyOptions(<<"EncodeDefault", "CompressSnappy">> \o opts, w0, r)
    IN IF set.err # "" THEN Failed(set.err)
       ELSE LET message == Encode(set.w.Encoding, r) IN
            IF message.err # "" THEN Failed(message.err)
            ELSE [err |-> "",
                  w |-> [set.w EXCEPT !.Value = Compress(set.w.Compression, message.m)]]

ErrValidateMethodMissing == "resource is missing required Validate() method"

\* a wrap that lets a resource without Validate() through
wrapSkippingMissingValidate(r, opts) ==
    IF TypeInfo(r.typ).validatable /\ r.invalid THEN Failed("validation failed")
    ELSE wrapWithoutValidation(r, opts)

wrap(r, opts) ==
    IF TypeInfo(r.typ).validatable
        THEN IF r.invalid THEN Failed("validation failed")
             ELSE wrapWithoutValidation(r, opts)
        ELSE Failed(ErrValidateMethodMissing)

\* Wrapper.UnwrapRaw
UnwrapRaw(w) ==
    IF w.TypeMeta \notin Registered THEN [err |-> "not found", v |-> NoResource]
    ELSE LET resource == Zero(w.TypeMeta.Type)
             message == Decompress(w.Compression, w.Value)
         IN IF message.err # "" THEN [err |-> message.err, v |-> NoResource]
            ELSE LET dec == Decode(w.Encoding, message.m, resource) IN
                 IF dec.err # "" THEN [err |-> dec.err, v |-> NoResource]
                 ELSE [err |-> "", v |-> dec.v]

\* the labels and annotations Unwrap leaves in meta
StampLabels(w, labels) ==
    LET l0 == IF labels.nil THEN MakeMap ELSE labels
        l1 == Put(l0, SensuCreatedAtKey, MarshalText(w.CreatedAt))
        l2 == Put(l1, SensuUpdatedAtKey, MarshalText(w.UpdatedAt))
    IN IF ~IsZero(w.DeletedAt)
           THEN Put(l2, SensuDeletedAtKey, MarshalText(w.DeletedAt))
           ELSE l2

StampETag(w, annotations) ==
    Put(IF annotations.nil THEN MakeMap ELSE annotations, SensuETagKey, w.ETag)

\* an Unwrap that makes fresh maps instead of keeping the decoded ones
UnwrapIntoFreshMaps(w) ==
    LET raw == UnwrapRaw(w) IN
    IF raw.err # "" THEN [err |-> raw.err, v |-> NoResource]
    ELSE IF ~TypeInfo(raw.v.typ).v3
        THEN [err |-> "only v3 resources can be unwrapped", v |-> NoResource]
    ELSE LET meta == IF raw.v.meta.nil THEN NewObjectMeta ELSE raw.v.meta IN
         [err |-> "",
          v |-> [raw.v EXCEPT !.meta =
                   [meta EXCEPT !.labels = StampLabels(w, MakeMap),
                                !.annotations = StampETag(w, MakeMap)]]]

\* Wrapper.Unwrap
Unwrap(w) ==
    LET raw == UnwrapRaw(w) IN
    IF raw.err # "" THEN [err |-> raw.err, v |-> NoResource]
    ELSE IF ~TypeInfo(raw.v.typ).v3
        THEN [err |-> "only v3 resources can be unwrapped", v |-> NoResource]
    ELSE LET meta == IF raw.v.meta.nil THEN NewObjectMeta ELSE raw.v.meta IN
         [err |-> "",
          v |-> [raw.v EXCEPT !.meta =
                   [meta EXCEPT !.labels = StampLabels(w, meta.labels),
                                !.annotations = StampETag(w, meta.annotations)]]]

\* Wrapper.UnwrapInto(p): the error, the target afterwards, and whether the
\* call panicked (meta.Labels of a nil meta)
UnwrapInto(w, p0) ==
    LET p == [p0 EXCEPT !.proxy = FALSE]
        message == Decompress(w.Compression, w.Value)
    IN IF message.err # "" THEN [err |-> message.err, v |-> p0, panic |-> FALSE]
       ELSE LET dec == Decode(w.Encoding, message.m, p) IN
            IF dec.err # "" THEN [err |-> dec.err, v |-> p0, panic |-> FALSE]
            ELSE IF ~TypeInfo(dec.v.typ).v3
                THEN [err |-> "", v |-> [dec.v EXCEPT !.proxy = p0.proxy], panic |-> FALSE]
            ELSE IF dec.v.meta.nil
                THEN [err |-> "", v |-> dec.v, panic |-> TRUE]
            ELSE [err |-> "", panic |-> FALSE,
                  v |-> [dec.v EXCEPT !.meta.labels =
                                          StampLabels(w, dec.v.meta.labels),
                                      !.meta.annotations =
                                          IF dec.v.meta.annotations.nil THEN MakeMap
                                          ELSE dec.v.meta.annotations]]

-----------------------------------------------------------------------------
(* Calls on package wrap *)

Call(op, r, opts, err, v, panic) ==
    [op |-> op, r |-> r, opts |-> opts, err |-> err, v |-> v, panic |-> panic]
NoCall == Call("", NoResource, <<>>, "", NoResource, FALSE)

\* A run wraps one resource, the engine may write the envelope (once), and
\* the envelope is then unwrapped; the calls are functions of their
\* arguments, so one call of each run shows them all.
Unwrapped == call.op \in {"Unwrap", "UnwrapInto"}

\* wrap.Resource(r, opts...) and wrap.V2Resource(r, opts...)
WrapResource ==
    /\ call = NoCall /\ wrapper.nil
    /\ \E r \in Resources, opts \in OptionLists :
        LET out == wrap(r, opts) IN
        /\ wrapper' = out.w
        /\ src' = r
        /\ pristine' = TRUE
        /\ call' = Call("Resource", r, opts, out.err, NoResource, FALSE)
        /\ UNCHANGED <<patchVars, listVars>>

\* wrap.ResourceWithoutValidation and wrap.V2ResourceWithoutValidation
WrapResourceWithoutValidation ==
    /\ call = NoCall /\ wrapper.nil
    /\ \E r \in Resources, opts \in OptionLists :
        LET out == wrapWithoutValidation(r, opts) IN
        /\ wrapper' = out.w
        /\ src' = r
        /\ pristine' = TRUE
        /\ call' = Call("ResourceWithoutValidation", r, opts, out.err, NoResource, FALSE)
        /\ UNCHANGED <<patchVars, listVars>>

ETags == { "", "abc" }

\* the engine writes the envelope and stamps its timestamps and ETag
StoreWrite ==
    /\ ~wrapper.nil
    /\ call.op \in {"Resource", "ResourceWithoutValidation"}
    /\ \E c \in Times, u \in Times, d \in Times, e \in ETags :
         wrapper' = [wrapper EXCEPT !.CreatedAt = c, !.UpdatedAt = u,
                                    !.DeletedAt = d, !.ETag = e]
    /\ call' = NoCall
    /\ UNCHANGED <<src, pristine, patchVars, listVars>>

\* the engine hands back an envelope whose Value is not what was written
StoreCorruption ==
    /\ ~wrapper.nil
    /\ pristine
    /\ ~Unwrapped
    /\ wrapper' = [wrapper EXCEPT !.Value = Garbage]
    /\ pristine' = FALSE
    /\ call' = NoCall
    /\ UNCHANGED <<src, patchVars, listVars>>

\* w.Unwrap()
CallUnwrap ==
    /\ ~wrapper.nil
    /\ ~Unwrapped
    /\ LET out == Unwrap(wrapper) IN
       call' = Call("Unwrap", NoResource, <<>>, out.err, out.v, FALSE)
    /\ UNCHANGED <<wrapper, src, pristine, patchVars, listVars>>

\* the targets handed to UnwrapInto
Targets ==
    { Resource(t, FALSE, m, FALSE) :
        t \in TypeNames,
        m \in { NilMeta, NewObjectMeta,
                ObjectMeta("default", "old", Map("stale" :> "1"), NilMap) } }
    \cup { Resource("CheckConfig", TRUE, NilMeta, FALSE) }

\* w.UnwrapInto(p)
CallUnwrapInto ==
    /\ ~wrapper.nil
    /\ ~Unwrapped
    /\ \E p \in Targets :
         LET out == UnwrapInto(wrapper, p) IN
         call' = Call("UnwrapInto", p, <<>>, out.err, out.v, out.panic)
    /\ UNCHANGED <<wrapper, src, pristine, patchVars, listVars>>

-----------------------------------------------------------------------------
(* package wrap: List *)

\* An element of a slice: a nil pointer (or nil interface), or a resource
Elt(nil, v) == [nil |-> nil, v |-> v]
NilElt == Elt(TRUE, NoResource)

\* A Go slice: nil, or len elements of a backing array; the capacity is the
\* length of the backing array
Slice(len, elems) == [nil |-> FALSE, len |-> len, elems |-> elems]
NilSlice == [nil |-> TRUE, len |-> 0, elems |-> <<>>]
Cap(s) == Len(s.elems)

\* the error of List.Unwrap: "wrap list item %d: %s"
ErrListItem == "wrap list item"

\* the loop of List.Unwrap from item i on (items counted from 1 here, from 0
\* in the error)
RECURSIVE UnwrapItems(_, _, _)
UnwrapItems(l, i, result) ==
    IF i > Len(l) THEN [err |-> "", item |-> -1, v |-> Slice(Len(l), result)]
    ELSE LET p == Unwrap(l[i]) IN
         IF p.err # "" THEN [err |-> ErrListItem, item |-> i - 1, v |-> NilSlice]
         ELSE UnwrapItems(l, i + 1, [result EXCEPT ![i] = Elt(FALSE, p.v)])

\* a List.Unwrap that goes on after a failure and reports the last one
ListUnwrapReportingLast(l) ==
    LET failing == { i \in 1..Len(l) : Unwrap(l[i]).err # "" } IN
    IF failing = {}
        THEN [err |-> "", item |-> -1,
              v |-> Slice(Len(l), [i \in 1..Len(l) |-> Elt(FALSE, Unwrap(l[i]).v)])]
        ELSE [err |-> ErrListItem,
              item |-> (CHOOSE i \in failing : \A j \in failing : j <= i) - 1,
              v |-> NilSlice]

\* List.Unwrap
ListUnwrap(l) == UnwrapItems(l, 1, [i \in 1..Len(l) |-> NilElt])

\* The ptr argument of List.UnwrapInto. kind: what the interface holds
\* ("nil": nothing; "value": not a pointer; "ptrToStruct": a pointer to
\* something that is no slice; "nilPtrToSlice": a nil *[]T; "ptrToSlice": a
\* *[]T or *[]*T; "ptrToResources": a *[]corev3.Resource); elemPtr: the
\* slice's elements are pointers; elemType: T; slice: what it points to.
Ptr(kind, elemPtr, elemType, slice) ==
    [kind |-> kind, elemPtr |-> elemPtr, elemType |-> elemType, slice |-> slice]

\* the zero value of an element of ptr's slice
ZeroElt(ptr) == IF ptr.elemPtr THEN NilElt ELSE Elt(FALSE, Zero(ptr.elemType))

\* the slice after the capacity and length adjustments of List.UnwrapInto
Resized(s, n, zero) ==
    LET grown == IF Cap(s) < n THEN Slice(n, [i \in 1..n |-> zero]) ELSE s
    IN IF grown.len < Cap(grown) THEN [grown EXCEPT !.len = Cap(grown)] ELSE grown

\* the loop of List.UnwrapInto from item i on
RECURSIVE UnwrapIntoItems(_, _, _, _)
UnwrapIntoItems(l, i, elemType, s) ==
    IF i > Len(l) THEN [err |-> "", panic |-> FALSE, s |-> s]
    ELSE LET elt == IF s.elems[i].nil THEN Elt(FALSE, Zero(elemType)) ELSE s.elems[i]
             out == UnwrapInto(l[i], elt.v)
             s1 == [s EXCEPT !.elems[i] = Elt(FALSE, out.v)]
         IN IF out.panic THEN [err |-> "", panic |-> TRUE, s |-> s1]
            ELSE IF out.err # "" THEN [err |-> out.err, panic |-> FALSE, s |-> s1]
            ELSE UnwrapIntoItems(l, i + 1, elemType, s1)

\* a List.UnwrapInto that does not return early on an empty List
ListUnwrapIntoWithoutEmptyCase(l, ptr) ==
    IF ptr.kind = "ptrToResources"
        THEN LET out == ListUnwrap(l) IN
             IF out.err # "" THEN [err |-> out.err, panic |-> FALSE, ptr |-> ptr]
             ELSE [err |-> "", panic |-> FALSE, ptr |-> [ptr EXCEPT !.slice = out.v]]
    ELSE IF ptr.kind = "nil" THEN [err |-> "", panic |-> TRUE, ptr |-> ptr]
    ELSE IF ptr.kind # "ptrToSlice" THEN [err |-> ErrNotValid, panic |-> FALSE, ptr |-> ptr]
    ELSE LET out == UnwrapIntoItems(l, 1, ptr.elemType,
                                    Resized(ptr.slice, Len(l), ZeroElt(ptr)))
         IN [err |-> out.err, panic |-> out.panic, ptr |-> [ptr EXCEPT !.slice = out.s]]

\* List.UnwrapInto(ptr): the error, whether the call panicked, and ptr's
\* slice afterwards
ListUnwrapInto(l, ptr) ==
    IF Len(l) = 0 THEN [err |-> "", panic |-> FALSE, ptr |-> ptr]
    ELSE IF ptr.kind = "ptrToResources"
        THEN LET out == ListUnwrap(l) IN
             IF out.err # "" THEN [err |-> out.err, panic |-> FALSE, ptr |-> ptr]
             ELSE [err |-> "", panic |-> FALSE, ptr |-> [ptr EXCEPT !.slice = out.v]]
    \* reflect.ValueOf(nil).Type() panics
    ELSE IF ptr.kind = "nil" THEN [err |-> "", panic |-> TRUE, ptr |-> ptr]
    ELSE IF ptr.kind = "value" THEN [err |-> ErrNotValid, panic |-> FALSE, ptr |-> ptr]
    ELSE IF ptr.kind # "ptrToSlice"
        THEN [err |-> ErrNotValid, panic |-> FALSE, ptr |-> ptr]
    ELSE LET out == UnwrapIntoItems(l, 1, ptr.elemType,
                                    Resized(ptr.slice, Len(l), ZeroElt(ptr)))
         IN [err |-> out.err, panic |-> out.panic, ptr |-> [ptr EXCEPT !.slice = out.s]]

-----------------------------------------------------------------------------
(* Calls on a List *)

\* the envelope as the engine hands it back
Stamped(w) == [w EXCEPT !.CreatedAt = Now, !.UpdatedAt = Now, !.ETag = "abc"]

ListResources ==
    { Resource("EntityConfig", FALSE,
               ObjectMeta("default", "foo", Map("app" :> "x"), NilMap), FALSE),
      Resource("EntityConfig", FALSE, NilMeta, FALSE),
      Resource("Custom", FALSE, ObjectMeta("default", "bar", NilMap, NilMap), FALSE),
      Resource("Anon", FALSE, ObjectMeta("default", "foo", NilMap, NilMap), FALSE) }

ListOptions == { <<>>, <<"EncodeJSON", "CompressNone">> }

\* the envelopes of the Lists: wrapped resources, and one whose Value is not a
\* valid frame
Envelopes ==
    { Stamped(wrapWithoutValidation(r, opts).w) : r \in ListResources, opts \in ListOptions }
    \cup { [Stamped(wrapWithoutValidation(r, <<>>).w) EXCEPT !.Value = Garbage] :
             r \in { x \in ListResources : x.typ = "Custom" } }

\* an element the caller's slice holds already
Prepopulated(t) ==
    Elt(FALSE, Resource(t, FALSE,
                        ObjectMeta("default", "old", Map("stale" :> "1"), NilMap), FALSE))

ElemTypes == { "EntityConfig", "Custom" }

\* the arguments handed to List.UnwrapInto
Ptrs ==
    { Ptr(k, FALSE, "", NilSlice) : k \in { "nil", "value", "ptrToStruct", "nilPtrToSlice" } }
    \cup { Ptr("ptrToResources", FALSE, "", Slice(n, [i \in 1..n |-> Prepopulated("Custom")])) :
             n \in 0..MaxCap }
    \cup UNION { UNION { { Ptr("ptrToSlice", ep, t, Slice(n, [i \in 1..c |-> e])) :
                             n \in 0..c,
                             e \in { ZeroElt(Ptr("ptrToSlice", ep, t, NilSlice)),
                                     Prepopulated(t) } } :
                         c \in 0..MaxCap } :
                 ep \in BOOLEAN, t \in ElemTypes }

ListCall(op, ptr, err, item, panic, v, out) ==
    [op |-> op, ptr |-> ptr, err |-> err, item |-> item, panic |-> panic, v |-> v,
     out |-> out]
NoPtr == Ptr("", FALSE, "", NilSlice)
NoListCall == ListCall("", NoPtr, "", -1, FALSE, NilSlice, NoPtr)

\* the List gets one more envelope
ListAppend ==
    /\ lcall = NoListCall
    /\ Len(list) < MaxList
    /\ \E w \in Envelopes : list' = Append(list, w)
    /\ UNCHANGED <<lcall, patchVars, wrapVars>>

\* l.Unwrap()
CallListUnwrap ==
    /\ lcall = NoListCall
    /\ LET out == ListUnwrap(list) IN
       lcall' = ListCall("Unwrap", NoPtr, out.err, out.item, FALSE, out.v, NoPtr)
    /\ UNCHANGED <<list, patchVars, wrapVars>>

\* l.UnwrapInto(ptr)
CallListUnwrapInto ==
    /\ lcall = NoListCall
    /\ \E ptr \in Ptrs :
         LET out == ListUnwrapInto(list, ptr) IN
         lcall' = ListCall("UnwrapInto", ptr, out.err, -1, out.panic, NilSlice, out.ptr)
    /\ UNCHANGED <<list, patchVars, wrapVars>>

-----------------------------------------------------------------------------
(* Specifications *)

Init ==
    /\ store = [id \in IDs |->
                  IF id = ID("default", "foo") THEN Envelope(TRUE, 0, "init")
                  ELSE Envelope(FALSE, 0, "")]
    /\ req = [r \in Requests |-> NewRequest]
    /\ wrapper = NilWrapper
    /\ src = NoResource
    /\ pristine = TRUE
    /\ call = NoCall
    /\ list = <<>>
    /\ lcall = NoListCall

NextPatch ==
    \E r \in Requests :
        \/ ReceiveBody(r)
        \/ SelectPatcher(r)
        \/ IfMatch(r)
        \/ IfNoneMatch(r)
        \/ DecodeRouteVars(r)
        \/ ValidateIdentity(r)
        \/ ApplyAtomically(r)

SpecPatch == Init /\ [][NextPatch]_vars

NextWrap ==
    \/ WrapResource
    \/ WrapResourceWithoutValidation
    \/ StoreWrite
    \/ StoreCorruption
    \/ CallUnwrap
    \/ CallUnwrapInto

SpecWrap == Init /\ [][NextWrap]_vars

NextList ==
    \/ ListAppend
    \/ CallListUnwrap
    \/ CallListUnwrapInto

SpecList == Init /\ [][NextList]_vars

-----------------------------------------------------------------------------
(* Claims about PatchResource *)

Done(r) == req[r].pc = "Done"
Succeeded(r) == Done(r) /\ req[r].err = Nil
CalledEngine(r) == req[r].calls > 0
Target(r) == ID(req[r].namespace, req[r].name)

\* two requests to one identity whose If-Match names the same single ETag,
\* both answered by the engine
SameETagPair(r1, r2) ==
    /\ r1 # r2
    /\ CalledEngine(r1) /\ CalledEngine(r2)
    /\ Target(r1) = Target(r2)
    /\ req[r1].ifMatch.k = "set" /\ Cardinality(req[r1].ifMatch.tags) = 1
    /\ req[r2].ifMatch = req[r1].ifMatch

\* the engine refused the request for a reason of its own: the merged
\* document is not valid, or the engine faulted
EngineRefused(r) == req[r].engineErr \in {ErrNotValid, ErrInternal, ErrCanceled}

RaceOutcome ==
    \A r1, r2 \in Requests : SameETagPair(r1, r2) =>
        /\ ~(Succeeded(r1) /\ Succeeded(r2))
        /\ req[r1].calls = 1 /\ req[r2].calls = 1
        /\ Succeeded(r1) =>
              /\ store[Target(r1)].etag \notin req[r1].ifMatch.tags
              /\ req[r2].err # Nil
              /\ ~EngineRefused(r2) => req[r2].err = PreconditionFailed

\* a request that fails leaves the store as it was
FailureLeavesStore ==
    \A r \in Requests :
        (req[r].pc # "Done" /\ req'[r].pc = "Done" /\ req'[r].err # Nil)
            => store' = store

\* C1 (as amended): of two patch requests to one identity that carry an
\* If-Match equal to the same ETag, at most one succeeds in every
\* interleaving; a successful one changes the stored ETag; the other one
\* fails, with PreconditionFailed unless the engine refused it for a reason
\* of its own (invalid merged document, engine fault); a failing request
\* leaves the stored envelope unchanged; no request calls the engine twice.
C1_PreconditionRace == [][RaceOutcome' /\ FailureLeavesStore]_vars

C1_Witness ==
    \E r1, r2 \in Requests :
        /\ SameETagPair(r1, r2)
        /\ req[r1].ifMatch.tags = {0}
        /\ Succeeded(r1) /\ store[Target(r1)].etag = 1
        /\ req[r2].err = PreconditionFailed

\* C1 (as stated): the other request of the pair always fails with
\* PreconditionFailed.
C1_LoserAlwaysPreconditionFailed ==
    \A r1, r2 \in Requests :
        (SameETagPair(r1, r2) /\ Succeeded(r1))
            => /\ store[Target(r1)].etag \notin req[r1].ifMatch.tags
               /\ req[r2].err = PreconditionFailed

\* the value the route supplies for a variable
RouteValue(s) == IF PathUnescape(s).err THEN s ELSE PathUnescape(s).v

\* the request's route variables were read
ReadRoute(r) == req[r].params # NoVars

\* the body sets metadata.namespace or metadata.name to a non-empty value
\* that is not the route's
ChangesIdentity(r) ==
    /\ req[r].body.k = "doc" /\ req[r].body.hasMeta
    /\ \/ req[r].body.ns # "" /\ req[r].body.ns # RouteValue(req[r].params.namespace)
       \/ req[r].body.name # "" /\ req[r].body.name # RouteValue(req[r].params.id)

\* C2: a request whose body sets metadata.namespace or metadata.name to a
\* non-empty value different from the route's fails with InvalidArgument and
\* never calls the engine; a body with no metadata block, with empty identity
\* fields or with the route's identity passes validatePatch.
C2_IdentityImmutable ==
    \A r \in Requests :
        /\ (Done(r) /\ ReadRoute(r) /\ ChangesIdentity(r))
              => (req[r].err = InvalidArgument /\ ~CalledEngine(r))
        /\ (req[r].body.k = "doc" /\ ReadRoute(r) /\ ~ChangesIdentity(r))
              => req[r].failedAt # "ValidateIdentity"

MergeContentTypes == {mergePatchContentType, ""}

\* C4: merge-patch is selected exactly when the Content-Type is
\* application/merge-patch+json or absent; application/json-patch+json and
\* every other value fail with InvalidArgument, and the engine is not called.
C4_SelectPatcher ==
    \A r \in Requests :
        /\ req[r].pc = "IfMatch"
              => (req[r].patcher = "merge" /\ req[r].contentType \in MergeContentTypes)
        /\ req[r].failedAt = "SelectPatcher"
              => /\ req[r].contentType \notin MergeContentTypes
                 /\ req[r].patcher = "none"
                 /\ req[r].err = InvalidArgument
                 /\ ~CalledEngine(r)
        /\ (req[r].patcher = "merge") <=>
              (req[r].pc \notin {"ReceiveBody", "SelectPatcher"}
                  /\ req[r].failedAt \notin {"ReceiveBody", "SelectPatcher"})
        /\ CalledEngine(r) => req[r].patcher = "merge"

C4_Witness ==
    \E r1, r2 \in Requests :
        /\ req[r1].failedAt = "SelectPatcher" /\ req[r1].contentType = jsonPatchContentType
        /\ req[r2].pc = "IfMatch" /\ req[r2].contentType = ""

\* C5: the engine's outcome is classified totally: not-found is NotFound,
\* not-valid is InvalidArgument, precondition-failed is PreconditionFailed,
\* every other error is Internal, and success returns no error and no
\* resource.
C5_Classification ==
    \A r \in Requests : (Done(r) /\ CalledEngine(r)) =>
        /\ req[r].engineErr = ErrNotFound => req[r].err = NotFound
        /\ req[r].engineErr = ErrNotValid => req[r].err = InvalidArgument
        /\ req[r].engineErr = ErrPreconditionFailed => req[r].err = PreconditionFailed
        /\ req[r].engineErr \in {ErrInternal, ErrCanceled} => req[r].err = InternalErr
        /\ req[r].engineErr = Nil => req[r].err = Nil
        /\ req[r].err \in {Nil, NotFound, InvalidArgument, PreconditionFailed, InternalErr}
        /\ req[r].resource = "nil"

C5_Witness ==
    \E r1, r2 \in Requests :
        /\ req[r1].engineErr = ErrNotValid /\ req[r1].err = InvalidArgument
        /\ req[r2].engineErr = ErrCanceled /\ req[r2].err = InternalErr

\* C6: every failure PatchResource returns carries a code of the taxonomy.
C6_EveryFailureTagged ==
    \A r \in Requests :
        (Done(r) /\ req[r].err # Nil)
            => req[r].err \in {InvalidArgument, NotFound, PreconditionFailed, InternalErr}

-----------------------------------------------------------------------------
(* Claims about package wrap *)

ReservedLabels == { SensuCreatedAtKey, SensuUpdatedAtKey, SensuDeletedAtKey }
ReservedAnnotations == { SensuETagKey }

Without(kv, keys) == [x \in (DOMAIN kv) \ keys |-> kv[x]]

\* What a resource says, the reserved keys left out. A nil map says what an
\* empty map says and a nil metadata what an empty one says: hydration
\* materialises both.
Content(r) ==
    [typ |-> r.typ, namespace |-> r.meta.namespace, name |-> r.meta.name,
     labels |-> Without(r.meta.labels.kv, ReservedLabels),
     annotations |-> Without(r.meta.annotations.kv, ReservedAnnotations),
     invalid |-> r.invalid]

StructurallyEqual(a, b) == Content(a) = Content(b)

ValidResource(r) == TypeInfo(r.typ).validatable /\ ~r.invalid

\* the type identity wrap records resolves to a registered v3 resource type
Resolvable(r) == TypeMetaOf(r) \in Registered /\ TypeInfo(r.typ).v3

\* the envelope wrapped from a valid resource has been unwrapped
RoundTripDone == call.op = "Unwrap" /\ pristine /\ ValidResource(src)

\* C3 (as amended): for all supported (encoding, compression) pairs and
\* every valid resource r whose type identity resolves to a registered v3
\* resource type, unwrapping the envelope wrapped from r succeeds and yields
\* a resource structurally equal to r except for the injected keys; for the
\* other valid resources Unwrap fails.
C3_RoundTrip ==
    RoundTripDone =>
        /\ (call.err = "") <=> Resolvable(src)
        /\ call.err = "" => StructurallyEqual(call.v, src)

C3_Witness ==
    /\ RoundTripDone /\ call.err = ""
    /\ wrapper.Encoding = Encoding_json /\ wrapper.Compression = Compression_snappy
    /\ Has(src.meta.labels, "app") /\ Has(src.meta.labels, SensuDeletedAtKey)
    /\ wrapper.ETag = "abc"
    /\ call.v.meta.annotations.kv[SensuETagKey] = "abc"

\* C3 (as stated): the round trip holds for every valid resource.
C3_RoundTripForEveryValidResource ==
    RoundTripDone => (call.err = "" /\ StructurallyEqual(call.v, src))

Wrapped == call.op \in {"Resource", "ResourceWithoutValidation"}

\* C7: Resource / V2Resource fail with the missing-validation error on a
\* resource without Validate(), whatever its content and the options, and
\* leave no envelope; a resource whose validation fails leaves no envelope;
\* the without-validation variants skip this step alone.
C7_ValidationGate ==
    /\ call.op = "Resource" =>
         /\ ~TypeInfo(call.r.typ).validatable
               => (call.err = ErrValidateMethodMissing /\ wrapper.nil)
         /\ (TypeInfo(call.r.typ).validatable /\ call.r.invalid)
               => (call.err # "" /\ wrapper.nil)
         /\ ValidResource(call.r)
               => /\ call.err = wrapWithoutValidation(call.r, call.opts).err
                  /\ wrapper = wrapWithoutValidation(call.r, call.opts).w
    /\ call.op = "ResourceWithoutValidation" =>
         /\ call.err # ErrValidateMethodMissing
         /\ call.err # "validation failed"
         /\ (call.err = "") <=> ~wrapper.nil

C7_Witness ==
    /\ call.op = "Resource"
    /\ call.r.typ = "Plain" /\ ~call.r.meta.nil
    /\ call.opts = <<"EncodeJSON", "CompressNone">>
    /\ call.err = ErrValidateMethodMissing /\ wrapper.nil

EncodingOptions == { "EncodeProtobuf", "EncodeJSON", "EncodeDefault" }
CompressionOptions == { "CompressNone", "CompressSnappy" }

\* the last option of opts that is in kinds, "" when there is none
LastOption(opts, kinds) ==
    LET at == { i \in DOMAIN opts : opts[i] \in kinds } IN
    IF at = {} THEN ""
    ELSE opts[CHOOSE i \in at : \A j \in at : j <= i]

DefaultEncoding(r) ==
    IF TypeInfo(r.typ).proto THEN Encoding_protobuf ELSE Encoding_json

ExpectedEncoding(r, opts) ==
    CASE LastOption(opts, EncodingOptions) = "EncodeProtobuf" -> Encoding_protobuf
      [] LastOption(opts, EncodingOptions) = "EncodeJSON" -> Encoding_json
      [] OTHER -> DefaultEncoding(r)

ExpectedCompression(opts) ==
    IF LastOption(opts, CompressionOptions) = "CompressNone"
        THEN Compression_none ELSE Compression_snappy

\* C8: when wrap succeeds, the envelope's encoding and compression are those
\* of the last explicit option of each kind, and without one the defaults
\* (protobuf if the resource is a proto.Message, else JSON; snappy); an
\* explicit EncodeProtobuf on a resource that is no proto.Message makes wrap
\* fail.
C8_OptionsInOrder ==
    Wrapped =>
        /\ call.err = "" =>
             /\ wrapper.Encoding = ExpectedEncoding(call.r, call.opts)
             /\ wrapper.Compression = ExpectedCompression(call.opts)
        /\ (~TypeInfo(call.r.typ).proto
              /\ \E i \in DOMAIN call.opts : call.opts[i] = "EncodeProtobuf")
             => (call.err # "" /\ wrapper.nil)

C8_Witness ==
    /\ Wrapped /\ call.err = ""
    /\ call.opts = <<"EncodeJSON", "CompressNone">>
    /\ TypeInfo(call.r.typ).proto
    /\ wrapper.Encoding = Encoding_json /\ wrapper.Compression = Compression_none

\* s is the textual form of t
IsTextOf(s, t) == ~MarshalTextFails(t) /\ s = MarshalText(t)

\* C9: after a successful Unwrap the metadata, labels and annotations are
\* non-nil, the labels hold the envelope's created-at and updated-at
\* timestamps in textual form, the annotations hold the envelope's ETag, and
\* the deleted-at label is there if and only if the envelope's DeletedAt is
\* non-zero.
C9_HydrationInvariant ==
    (call.op = "Unwrap" /\ call.err = "") =>
        /\ ~call.v.meta.nil
        /\ ~call.v.meta.labels.nil /\ ~call.v.meta.annotations.nil
        /\ Has(call.v.meta.labels, SensuCreatedAtKey)
        /\ IsTextOf(call.v.meta.labels.kv[SensuCreatedAtKey], wrapper.CreatedAt)
        /\ Has(call.v.meta.labels, SensuUpdatedAtKey)
        /\ IsTextOf(call.v.meta.labels.kv[SensuUpdatedAtKey], wrapper.UpdatedAt)
        /\ Has(call.v.meta.annotations, SensuETagKey)
        /\ call.v.meta.annotations.kv[SensuETagKey] = wrapper.ETag
        /\ Has(call.v.meta.labels, SensuDeletedAtKey) <=> ~IsZero(wrapper.DeletedAt)

\* the target is a metadata-capable value of the envelope's type
TargetOfEnvelopeType(p) ==
    /\ TypeInfo(p.typ).v3
    /\ wrapper.TypeMeta \in Registered
    /\ wrapper.TypeMeta.Type = p.typ

\* C10: UnwrapInto leaves a metadata-capable target of the envelope's type
\* (a target with nil metadata included) as Unwrap would return it, the same
\* reserved keys stamped.
C10_UnwrapIntoLikeUnwrap ==
    (call.op = "UnwrapInto" /\ TargetOfEnvelopeType(call.r)) =>
        /\ ~call.panic
        /\ call.err = "" <=> Unwrap(wrapper).err = ""
        /\ call.err = "" => call.v = Unwrap(wrapper).v

-----------------------------------------------------------------------------
(* Claims about List *)

\* the items of the List whose envelope does not hydrate
Failing == { i \in 1..Len(list) : Unwrap(list[i]).err # "" }

\* C11: List.Unwrap hydrates the envelopes in input order: if every envelope
\* hydrates, the result is as long as the List and its element i is the
\* hydration of envelope i; if some envelope fails, the error names the index
\* of the first failing envelope and no result is returned.
C11_ListUnwrapAllOrNothing ==
    lcall.op = "Unwrap" =>
        /\ Failing = {} =>
             /\ lcall.err = "" /\ ~lcall.v.nil
             /\ lcall.v.len = Len(list) /\ Cap(lcall.v) = Len(list)
             /\ \A i \in 1..Len(list) :
                   lcall.v.elems[i] = Elt(FALSE, Unwrap(list[i]).v)
        /\ Failing # {} =>
             /\ lcall.err = ErrListItem
             /\ lcall.item + 1 \in Failing
             /\ \A j \in Failing : lcall.item + 1 <= j
             /\ lcall.v.nil

C11_Witness ==
    /\ lcall.op = "Unwrap"
    /\ Len(list) = 2 /\ Failing = {1, 2}
    /\ lcall.err = ErrListItem /\ lcall.item = 0 /\ lcall.v.nil

\* the call at hand is a List.UnwrapInto into a *[]T or *[]*T
IntoSlice == lcall.op = "UnwrapInto" /\ lcall.ptr.kind = "ptrToSlice"

\* what element i of the caller's slice may start from: a freshly allocated
\* value, or the element the slice held at i
StartsOf(i) ==
    { Zero(lcall.ptr.elemType) }
    \cup { lcall.ptr.slice.elems[j].v :
             j \in { k \in {i} : k <= lcall.ptr.slice.len /\ ~lcall.ptr.slice.elems[k].nil } }

\* C12: a successful List.UnwrapInto of a non-empty List of n envelopes into
\* a slice of a concrete element type, whatever its length and capacity,
\* leaves the slice with length exactly n, element i holding the hydration of
\* envelope i, missing elements freshly allocated.
C12_ResizedToListLength ==
    (IntoSlice /\ Len(list) > 0 /\ lcall.err = "" /\ ~lcall.panic) =>
        /\ lcall.out.slice.len = Len(list)
        /\ \A i \in 1..Len(list) :
              /\ ~lcall.out.slice.elems[i].nil
              /\ \E p \in StartsOf(i) :
                    lcall.out.slice.elems[i].v = UnwrapInto(list[i], p).v

\* C13: List.UnwrapInto of a List of zero envelopes leaves the target as it
\* was (same length, same elements) and returns no error.
C13_EmptyListNoOp ==
    (lcall.op = "UnwrapInto" /\ list = <<>>) =>
        /\ lcall.err = "" /\ ~lcall.panic
        /\ lcall.out = lcall.ptr

C13_Witness ==
    /\ lcall.op = "UnwrapInto" /\ list = <<>>
    /\ lcall.ptr.kind = "ptrToSlice"
    /\ lcall.ptr.slice.len = 2 /\ Cap(lcall.ptr.slice) = 3
    /\ lcall.ptr.slice.elems[1] = Prepopulated("Custom")
    /\ lcall.out.slice = lcall.ptr.slice /\ lcall.err = ""

\* ptr is not a pointer to a slice
NotPointerToSlice(ptr) == ptr.kind \in { "nil", "value", "ptrToStruct" }

\* C14: List.UnwrapInto fails with a not-valid error whenever the target is
\* not a pointer to a slice, for every List, the empty one included, and
\* hydrates nothing.
C14_TypeMismatch ==
    (lcall.op = "UnwrapInto" /\ NotPointerToSlice(lcall.ptr)) =>
        /\ lcall.err = ErrNotValid /\ ~lcall.panic
        /\ lcall.out = lcall.ptr

-----------------------------------------------------------------------------
(* Claims about the order of PatchResource's steps *)

EarlierSteps ==
    { "ReceiveBody", "SelectPatcher", "IfMatch", "IfNoneMatch", "RouteVars",
      "ValidateIdentity" }

\* the preconditions a header that parses leaves in the context; none when
\* the header is absent
ParsedConds(values) ==
    { NoCond } \cup { ReadIfMatch(v).cond : v \in { x \in values : ~ReadIfMatch(x).err } }

\* what holds of a request that has called the engine, and of one that an
\* earlier step rejected
CalledInOrder ==
    \A r \in Requests :
        /\ req[r].calls <= 1
        /\ CalledEngine(r) =>
             /\ Done(r)
             /\ req[r].body.k = "doc"
             /\ req[r].patcher = "merge"
             /\ req[r].ifMatch \in ParsedConds(IfMatchValues)
             /\ req[r].ifNoneMatch \in ParsedConds(IfNoneMatchValues)
             /\ ReadRoute(r)
             /\ validatePatch(req[r].body, req[r].params) = ""
             /\ req[r].failedAt \notin EarlierSteps
        /\ req[r].failedAt \in EarlierSteps => (Done(r) /\ ~CalledEngine(r))
        /\ req[r].failedAt \in { "IfMatch", "IfNoneMatch" } => req[r].err = InvalidArgument

\* the engine is called, and the store changed, by the ApplyAtomically step alone
OnlyApplyMutates ==
    /\ \A r \in Requests :
          req'[r].calls # req[r].calls =>
              (req[r].pc = "ApplyAtomically" /\ req'[r].calls = req[r].calls + 1)
    /\ store' # store =>
          \E r \in Requests :
              /\ req[r].pc = "ApplyAtomically"
              /\ req'[r].calls = req[r].calls + 1
              /\ req'[r].err = Nil
              /\ \A id \in IDs \ { Target(r)' } : store'[id] = store[id]

\* C15: within one request the engine's patch primitive is called at most
\* once, and only after the body was read, the patcher selected, the
\* If-Match / If-None-Match headers parsed and the identity validated; a
\* request rejected at an earlier step (a malformed precondition header, which
\* fails InvalidArgument, included) never calls the engine and never changes
\* the stored envelope.
C15_EngineCalledOnceAfterChecks == [][OnlyApplyMutates /\ CalledInOrder']_vars

C15_Witness ==
    \E r1, r2 \in Requests :
        /\ req[r1].failedAt = "IfMatch" /\ req[r1].err = InvalidArgument
        /\ ~CalledEngine(r1)
        /\ Succeeded(r2) /\ req[r2].calls = 1
        /\ store[Target(r2)].etag = 1

====
